---- MODULE Spec2Model ----
(***************************************************************************)
(* Settings Management: the Express/SQLite document store API              *)
(* (backend/src/app.js and the stand-alone backend/src/index.js) as a      *)
(* state machine.  One action per HTTP request; the SQLite table is a set  *)
(* of rows; JSON text is a sequence of tokens, so that JSON.stringify and  *)
(* JSON.parse are real conversions and not the identity.                   *)
(* The visual JSON editor of the frontend (frontend/src/JsonBuilder.jsx)   *)
(* is a second state machine over its own variables: one action per user   *)
(* gesture, texts as sequences of characters.                              *)
(***************************************************************************)
EXTENDS Integers, Sequences, FiniteSets, TLC

VARIABLES
    table,    \* the rows of the SQLite table `settings`
    clock,    \* the millisecond reading of the server's Date
    issued,   \* the ids uuidv4() has returned so far
    resp,     \* the request handled by the last step and the response it got
    hist,     \* history: per id, what the creating POST was given and answered
    fields,       \* JsonBuilder: the entries <<[id, key, value, type], ...>>
    nextId,       \* JsonBuilder: the id the next added entry gets
    jsonInput,    \* the parent's JSON text: what onChange last handed it
    isJsonValid,  \* the parent's flag: what onValidationChange last handed it
    editorMode,   \* the parent's mode: "visual" shows the JsonBuilder, "raw" a textarea
    calls,        \* history: the callbacks the last editor gesture made
    editingId,    \* App: the id of the record being edited, or NoId
    error,        \* App: the error message shown, in pieces (<<>> for none)
    success,      \* App: the success message shown, in pieces (<<>> for none)
    settings,     \* App: the records the list shows
    pagination,   \* App: [page, totalPages] as the last list response gave them
    loading,      \* App: the list shows "Loading..."
    fetches,      \* the list requests of the App in flight, and the one issued last
    timer,        \* the timeout the success effect has armed, or NoTimer
    shownFor,     \* history: seconds since the success message was last set
    pending,      \* the writes that are in flight to the server
    sent          \* history: the last API call of the App and how it ended

vars == <<table, clock, issued, resp, hist,
          fields, nextId, jsonInput, isJsonValid, editorMode, calls,
          editingId, error, success, settings, pagination, loading, fetches,
          timer, shownFor, pending, sent>>

\* the store's variables, and the editor's
api == <<table, clock, issued, resp, hist>>
builder == <<fields, nextId, jsonInput, isJsonValid, editorMode, calls>>
\* the App's own state, and the requests in flight
app == <<editingId, error, success, settings, pagination, loading, fetches,
         timer, shownFor, pending, sent>>

----------------------------------------------------------------------------
(* Bounds of the model *)

\* size of the pool uuidv4() draws from: at most this many creates succeed
NumIds == 2
\* the clock stops advancing here
MaxClock == 1

----------------------------------------------------------------------------
(* JavaScript values that JSON can carry: a tagged variant.  Every value   *)
(* has all five fields so that any two values can be compared.             *)
(*   t : "null" | "bool" | "num" | "str" | "arr" | "obj"                   *)
(*   c : the members, in order: <<[k |-> key, v |-> value], ...>>          *)
(*       (array items carry the empty key)                                 *)
(*   s : the characters of a string, keys likewise                         *)

JNull == [t |-> "null", b |-> FALSE, n |-> 0, s |-> <<>>, c |-> <<>>]
JBool(x) == [t |-> "bool", b |-> x, n |-> 0, s |-> <<>>, c |-> <<>>]
JNum(x) == [t |-> "num", b |-> FALSE, n |-> x, s |-> <<>>, c |-> <<>>]
JStr(x) == [t |-> "str", b |-> FALSE, n |-> 0, s |-> x, c |-> <<>>]
JArr(items) == [t |-> "arr", b |-> FALSE, n |-> 0, s |-> <<>>, c |-> items]
JObj(members) == [t |-> "obj", b |-> FALSE, n |-> 0, s |-> <<>>, c |-> members]
Member(key, val) == [k |-> key, v |-> val]

(* JSON text: a sequence of tokens [tk, s, n].                             *)
Tok(kind) == [tk |-> kind, s |-> <<>>, n |-> 0]
TokNum(x) == [tk |-> "num", s |-> <<>>, n |-> x]
TokStr(x) == [tk |-> "str", s |-> x, n |-> 0]

RECURSIVE JSONstringify(_)
RECURSIVE StringifyMembers(_, _, _)

\* the members of an array or object, comma separated; objects write "key":
StringifyMembers(ms, i, isObj) ==
    IF i > Len(ms) THEN <<>>
    ELSE (IF i > 1 THEN <<Tok(",")>> ELSE <<>>)
         \o (IF isObj THEN <<TokStr(ms[i].k), Tok(":")>> ELSE <<>>)
         \o JSONstringify(ms[i].v)
         \o StringifyMembers(ms, i + 1, isObj)

\* fault seeded into JSON.stringify: an object member whose value is null is
\* left out, as one whose value is undefined would be
JSONstringifyDropNull(v) ==
    CASE v.t = "null" -> <<Tok("null")>>
      [] v.t = "bool" -> <<Tok(IF v.b THEN "true" ELSE "false")>>
      [] v.t = "num"  -> <<TokNum(v.n)>>
      [] v.t = "str"  -> <<TokStr(v.s)>>
      [] v.t = "arr"  -> <<Tok("[")>> \o StringifyMembers(v.c, 1, FALSE) \o <<Tok("]")>>
      [] v.t = "obj"  -> <<Tok("{")>>
                         \o StringifyMembers(SelectSeq(v.c, LAMBDA m : m.v.t # "null"), 1, TRUE)
                         \o <<Tok("}")>>

\* JSON.stringify(value)
JSONstringify(v) ==
    CASE v.t = "null" -> <<Tok("null")>>
      [] v.t = "bool" -> <<Tok(IF v.b THEN "true" ELSE "false")>>
      [] v.t = "num"  -> <<TokNum(v.n)>>
      [] v.t = "str"  -> <<TokStr(v.s)>>
      [] v.t = "arr"  -> <<Tok("[")>> \o StringifyMembers(v.c, 1, FALSE) \o <<Tok("]")>>
      [] v.t = "obj"  -> <<Tok("{")>> \o StringifyMembers(v.c, 1, TRUE) \o <<Tok("}")>>

\* obj[key] = val on a JavaScript object: an existing key keeps its place
SetMember(ms, key, val) ==
    IF \E i \in 1..Len(ms) : ms[i].k = key
    THEN [i \in 1..Len(ms) |-> IF ms[i].k = key THEN Member(key, val) ELSE ms[i]]
    ELSE Append(ms, Member(key, val))

\* the result of a parsing step: ok, the value read, the next position
Parsed(val, next) == [ok |-> TRUE, v |-> val, i |-> next]
SyntaxError == [ok |-> FALSE, v |-> JNull, i |-> 0]

RECURSIVE ParseValue(_, _)
RECURSIVE ParseItems(_, _, _)
RECURSIVE ParseMembers(_, _, _)

\* array items from position i on (i is past "[" or past a ","), acc read so far
ParseItems(toks, i, acc) ==
    LET r == ParseValue(toks, i) IN
    IF ~r.ok \/ r.i > Len(toks) THEN SyntaxError
    ELSE IF toks[r.i].tk = "]" THEN Parsed(JArr(Append(acc, Member(<<>>, r.v))), r.i + 1)
    ELSE IF toks[r.i].tk = "," THEN ParseItems(toks, r.i + 1, Append(acc, Member(<<>>, r.v)))
    ELSE SyntaxError

\* object members from position i on (i is past "{" or past a ",")
ParseMembers(toks, i, acc) ==
    IF i + 1 > Len(toks) \/ toks[i].tk # "str" \/ toks[i + 1].tk # ":" THEN SyntaxError
    ELSE LET r == ParseValue(toks, i + 2) IN
         IF ~r.ok \/ r.i > Len(toks) THEN SyntaxError
         ELSE IF toks[r.i].tk = "}" THEN Parsed(JObj(SetMember(acc, toks[i].s, r.v)), r.i + 1)
         ELSE IF toks[r.i].tk = "," THEN ParseMembers(toks, r.i + 1, SetMember(acc, toks[i].s, r.v))
         ELSE SyntaxError

\* one JSON value starting at position i
ParseValue(toks, i) ==
    IF i > Len(toks) THEN SyntaxError
    ELSE LET k == toks[i].tk IN
         CASE k = "null"  -> Parsed(JNull, i + 1)
           [] k = "true"  -> Parsed(JBool(TRUE), i + 1)
           [] k = "false" -> Parsed(JBool(FALSE), i + 1)
           [] k = "num"   -> Parsed(JNum(toks[i].n), i + 1)
           [] k = "str"   -> Parsed(JStr(toks[i].s), i + 1)
           [] k = "["     -> IF i + 1 <= Len(toks) /\ toks[i + 1].tk = "]"
                             THEN Parsed(JArr(<<>>), i + 2)
                             ELSE ParseItems(toks, i + 1, <<>>)
           [] k = "{"     -> IF i + 1 <= Len(toks) /\ toks[i + 1].tk = "}"
                             THEN Parsed(JObj(<<>>), i + 2)
                             ELSE ParseMembers(toks, i + 1, <<>>)
           [] OTHER       -> SyntaxError

\* JSON.parse(text): the whole text must be one value
JSONparse(toks) ==
    LET r == ParseValue(toks, 1) IN
    IF r.ok /\ r.i = Len(toks) + 1 THEN r ELSE SyntaxError

\* deep equality of two values: arrays by position, objects by key
RECURSIVE DeepEqual(_, _)
DeepEqual(x, y) ==
    /\ x.t = y.t
    /\ CASE x.t = "arr" ->
              /\ Len(x.c) = Len(y.c)
              /\ \A i \in 1..Len(x.c) : DeepEqual(x.c[i].v, y.c[i].v)
         [] x.t = "obj" ->
              /\ Len(x.c) = Len(y.c)
              /\ \A i \in 1..Len(x.c) : \E j \in 1..Len(y.c) :
                    y.c[j].k = x.c[i].k /\ DeepEqual(x.c[i].v, y.c[j].v)
         [] OTHER -> x = y

\* the top-level keys of an object (no keys for any other value)
Keys(v) == IF v.t = "obj" THEN {v.c[i].k : i \in 1..Len(v.c)} ELSE {}

----------------------------------------------------------------------------
(* Requests *)

\* request bodies, as JSON text on the wire
WireEmpty == <<Tok("{"), Tok("}")>>
WireA == <<Tok("{"), TokStr(<<"a">>), Tok(":"), TokNum(1), Tok("}")>>
WireB == <<Tok("{"), TokStr(<<"a">>), Tok(":"), Tok("{"), TokStr(<<"b">>), Tok(":"), Tok("null"), Tok("}"),
           Tok(","), TokStr(<<"c">>), Tok(":"), Tok("["), Tok("true"), Tok(","), TokStr(<<"x">>), Tok("]"),
           Tok("}")>>
WireString == <<TokStr(<<"x">>)>>
Payloads == {WireEmpty, WireA, WireB, WireString}

\* the ids uuidv4() can return, and the ids a request path can name
AllIds == <<"u1", "u2", "u3", "u4", "u5", "u6", "u7", "u8">>
Ids == {AllIds[i] : i \in 1..NumIds}
PathIds == Ids \cup {"not-a-valid-uuid"}

\* a query parameter: absent, or the characters of its text
Absent == [present |-> FALSE, chars |-> <<>>]
Given(cs) == [present |-> TRUE, chars |-> cs]
PageValues ==
    { Absent, Given(<<"0">>), Given(<<"2">>), Given(<<"-", "1">>),
      Given(<<"1", ".", "5">>), Given(<<"a", "b", "c">>) }
LimitValues ==
    { Absent, Given(<<"0">>), Given(<<"1">>), Given(<<"-", "1">>),
      Given(<<"2", ".", "9">>), Given(<<"x", "y", "z">>) }

----------------------------------------------------------------------------
(* Middleware and helpers *)

\* app.use(express.json()): the body parser.  In its default (strict) mode
\* it hands the handler only a body whose text starts an object or an array
\* and parses; any other body is answered 400 before a handler runs.
expressJson(wire) ==
    LET r == JSONparse(wire) IN
    IF wire # <<>> /\ wire[1].tk \in {"{", "["} /\ r.ok
    THEN [ok |-> TRUE, body |-> r.v]
    ELSE [ok |-> FALSE, body |-> JNull]

\* new Date().toISOString(): a fixed-width text whose order and equality are
\* those of the millisecond reading, which stands for it
Now == clock

\* fault seeded into uuidv4: the generator repeats itself
uuidv4Reuse(given) == {AllIds[1]}

\* uuidv4(): the values a call can return.  A version-4 UUID is taken never
\* to repeat; ids are opaque, so the fresh one is the next of AllIds
uuidv4(given) == {AllIds[i] : i \in {Cardinality(given) + 1} \cap 1..NumIds}

\* parseInt(text): optional sign, then the longest prefix of digits
Digit == [c \in {"0", "1", "2", "3", "4", "5", "6", "7", "8", "9"} |->
            CASE c = "0" -> 0 [] c = "1" -> 1 [] c = "2" -> 2 [] c = "3" -> 3
              [] c = "4" -> 4 [] c = "5" -> 5 [] c = "6" -> 6 [] c = "7" -> 7
              [] c = "8" -> 8 [] c = "9" -> 9]
NaN == [nan |-> TRUE, n |-> 0]
Number(x) == [nan |-> FALSE, n |-> x]

RECURSIVE DigitsPrefix(_, _, _, _)
DigitsPrefix(cs, i, acc, any) ==
    IF i <= Len(cs) /\ cs[i] \in DOMAIN Digit
    THEN DigitsPrefix(cs, i + 1, 10 * acc + Digit[cs[i]], TRUE)
    ELSE IF any THEN Number(acc) ELSE NaN

RECURSIVE SkipSpace(_, _)
SkipSpace(cs, i) == IF i <= Len(cs) /\ cs[i] = " " THEN SkipSpace(cs, i + 1) ELSE i

\* fault seeded into parseInt: a fraction of one half or more rounds up
parseIntRounding(q) ==
    IF ~q.present THEN NaN
    ELSE LET i == SkipSpace(q.chars, 1)
             neg == i <= Len(q.chars) /\ q.chars[i] = "-"
             signed == i <= Len(q.chars) /\ q.chars[i] \in {"-", "+"}
             r == DigitsPrefix(q.chars, IF signed THEN i + 1 ELSE i, 0, FALSE)
             up == \E k \in 1..(Len(q.chars) - 1) :
                      q.chars[k] = "." /\ q.chars[k + 1] \in {"5", "6", "7", "8", "9"}
             m == IF up THEN r.n + 1 ELSE r.n
         IN IF r.nan THEN NaN ELSE Number(IF neg THEN 0 - m ELSE m)

parseInt(q) ==
    IF ~q.present THEN NaN
    ELSE LET i == SkipSpace(q.chars, 1)
             neg == i <= Len(q.chars) /\ q.chars[i] = "-"
             signed == i <= Len(q.chars) /\ q.chars[i] \in {"-", "+"}
             r == DigitsPrefix(q.chars, IF signed THEN i + 1 ELSE i, 0, FALSE)
         IN IF r.nan THEN NaN ELSE Number(IF neg THEN 0 - r.n ELSE r.n)

\* fault seeded into ||: only NaN gives way to the default, 0 is kept
OrElseNaNOnly(x, d) == IF x.nan THEN d ELSE x.n

\* x || d on a number: NaN and 0 are falsy
OrElse(x, d) == IF x.nan \/ x.n = 0 THEN d ELSE x.n

\* Math.ceil(a / b) for a >= 0 and b # 0 (-0 is written 0 by res.json)
MathCeilDiv(a, b) ==
    CASE b > 0 -> (a + b - 1) \div b
      [] b < 0 -> 0 - (a \div (0 - b))

----------------------------------------------------------------------------
(* The table `settings`: rows [id, data, created_at, updated_at], data     *)
(* holding JSON text.                                                      *)

Row(id, data, created, updated) ==
    [id |-> id, data |-> data, created_at |-> created, updated_at |-> updated]

\* INSERT INTO settings (id, data, created_at, updated_at) VALUES (?, ?, ?, ?)
\* id is the PRIMARY KEY: a second row with the same id makes the statement throw
InsertStmt(tbl, id, data, created, updated) ==
    IF \E r \in tbl : r.id = id
    THEN [ok |-> FALSE, tbl |-> tbl]
    ELSE [ok |-> TRUE, tbl |-> tbl \cup {Row(id, data, created, updated)}]

\* SELECT * FROM settings WHERE id = ?
SelectById(tbl, id) == {r \in tbl : r.id = id}

\* faults seeded into the UPDATE statement: the WHERE clause is missing;
\* created_at is written in place of updated_at; updated_at is not written
UpdateStmtAllRows(tbl, data, now, id) ==
    {[r EXCEPT !.data = data, !.updated_at = now] : r \in tbl}
UpdateStmtCreatedAt(tbl, data, now, id) ==
    {IF r.id = id THEN [r EXCEPT !.data = data, !.created_at = now] ELSE r : r \in tbl}
UpdateStmtDataOnly(tbl, data, now, id) ==
    {IF r.id = id THEN [r EXCEPT !.data = data] ELSE r : r \in tbl}

\* UPDATE settings SET data = ?, updated_at = ? WHERE id = ?
UpdateStmt(tbl, data, now, id) ==
    {IF r.id = id THEN [r EXCEPT !.data = data, !.updated_at = now] ELSE r : r \in tbl}

\* DELETE FROM settings WHERE id = ?
DeleteStmt(tbl, id) == {r \in tbl : r.id # id}

\* SELECT COUNT(*) as total FROM settings
CountStmt(tbl) == Cardinality(tbl)

\* fault seeded into the ORDER BY: created_at ascending
OrderingsAscending(tbl) ==
    {o \in [1..Cardinality(tbl) -> tbl] :
        /\ \A i, j \in DOMAIN o : i # j => o[i] # o[j]
        /\ \A i, j \in DOMAIN o : i < j => o[i].created_at <= o[j].created_at}

\* ... ORDER BY created_at DESC: every order of the rows with created_at
\* descending; rows of equal created_at come in an order SQL leaves open
Orderings(tbl) ==
    {o \in [1..Cardinality(tbl) -> tbl] :
        /\ \A i, j \in DOMAIN o : i # j => o[i] # o[j]
        /\ \A i, j \in DOMAIN o : i < j => o[i].created_at >= o[j].created_at}

\* fault seeded into the SELECT: the OFFSET is dropped
LimitOffsetFromStart(ord, limit, offset) ==
    LET last == IF limit < 0 \/ limit > Len(ord) THEN Len(ord) ELSE limit
    IN IF last <= 0 THEN <<>> ELSE SubSeq(ord, 1, last)

\* ... LIMIT ? OFFSET ? on the ordered rows; SQLite reads a negative LIMIT as
\* no limit and a negative OFFSET as 0
LimitOffset(ord, limit, offset) ==
    LET off == IF offset < 0 THEN 0 ELSE offset
        last == IF limit < 0 \/ off + limit > Len(ord) THEN Len(ord) ELSE off + limit
    IN IF off >= last THEN <<>> ELSE SubSeq(ord, off + 1, last)

\* parseRow(row), as res.json then writes it: data is parsed and written again
parseRow(row) ==
    [id |-> row.id, data |-> JSONstringify(JSONparse(row.data).v),
     createdAt |-> row.created_at, updatedAt |-> row.updated_at]

----------------------------------------------------------------------------
(* Responses.  resp holds the request of the last step and its response;   *)
(* fields a response does not carry keep the values of NoResp.  data and   *)
(* rows[i].data are the JSON text the client receives.                     *)

NoResp ==
    [op |-> "none", id |-> "", wire |-> <<>>, qpage |-> Absent, qlimit |-> Absent,
     status |-> 0, error |-> "", rid |-> "", data |-> <<>>,
     createdAt |-> -1, updatedAt |-> -1,
     rows |-> <<>>, page |-> 0, limit |-> 0, total |-> 0, totalPages |-> 0]

\* the body parser's answer to a body it rejects
BadRequest(op, id, wire) ==
    [NoResp EXCEPT !.op = op, !.id = id, !.wire = wire, !.status = 400]

\* fault seeded into app.post: an empty object is turned away
PostSettingsNonEmpty(tbl, wire, body, id, now) ==
    LET data == JSONstringify(body)
        ins == InsertStmt(tbl, id, data, now, now)
    IN IF body.t = "obj" /\ body.c = <<>>
       THEN [tbl |-> tbl, resp |-> BadRequest("post", "", wire)]
       ELSE [tbl |-> ins.tbl,
             resp |-> [NoResp EXCEPT !.op = "post", !.wire = wire, !.status = 201,
                          !.rid = id, !.data = JSONstringify(body),
                          !.createdAt = now, !.updatedAt = now]]

\* fault seeded into app.post: a payload the store already holds is not
\* stored again, the record that holds it is answered
PostSettingsDeduplicated(tbl, wire, body, id, now) ==
    LET data == JSONstringify(body)
        same == {r \in tbl : r.data = data}
        ins == InsertStmt(tbl, id, data, now, now)
    IN IF same # {}
       THEN LET r == CHOOSE r \in same : TRUE IN
            [tbl |-> tbl,
             resp |-> [NoResp EXCEPT !.op = "post", !.wire = wire, !.status = 201,
                          !.rid = r.id, !.data = data,
                          !.createdAt = r.created_at, !.updatedAt = r.updated_at]]
       ELSE [tbl |-> ins.tbl,
             resp |-> [NoResp EXCEPT !.op = "post", !.wire = wire, !.status = 201,
                          !.rid = id, !.data = data,
                          !.createdAt = now, !.updatedAt = now]]

\* app.post('/settings') once the body is parsed: [tbl, resp]
PostSettings(tbl, wire, body, id, now) ==
    LET data == JSONstringify(body)
        ins == InsertStmt(tbl, id, data, now, now)
    IN IF ins.ok
       THEN [tbl |-> ins.tbl,
             resp |-> [NoResp EXCEPT !.op = "post", !.wire = wire, !.status = 201,
                          !.rid = id, !.data = JSONstringify(body),
                          !.createdAt = now, !.updatedAt = now]]
       ELSE [tbl |-> tbl,
             resp |-> [NoResp EXCEPT !.op = "post", !.wire = wire, !.status = 500,
                          !.error = "Failed to create settings"]]

\* app.get('/settings/:id')
GetSettings(tbl, id) ==
    LET found == SelectById(tbl, id) IN
    IF found = {}
    THEN [NoResp EXCEPT !.op = "get", !.id = id, !.status = 404,
             !.error = "Settings not found"]
    ELSE LET rec == parseRow(CHOOSE r \in found : TRUE) IN
         [NoResp EXCEPT !.op = "get", !.id = id, !.status = 200,
             !.rid = rec.id, !.data = rec.data,
             !.createdAt = rec.createdAt, !.updatedAt = rec.updatedAt]

\* fault seeded into the PUT handler: a missing record is created (an upsert)
PutSettingsUpsert(tbl, wire, body, id, now) ==
    [tbl |-> IF SelectById(tbl, id) = {}
             THEN tbl \cup {Row(id, JSONstringify(body), now, now)}
             ELSE UpdateStmt(tbl, JSONstringify(body), now, id),
     resp |-> [NoResp EXCEPT !.op = "put", !.id = id, !.wire = wire, !.status = 200,
                  !.rid = id, !.data = JSONstringify(body), !.updatedAt = now]]

\* app.put('/settings/:id') once the body is parsed: [tbl, resp]
PutSettings(tbl, wire, body, id, now) ==
    IF SelectById(tbl, id) = {}
    THEN [tbl |-> tbl,
          resp |-> [NoResp EXCEPT !.op = "put", !.id = id, !.wire = wire, !.status = 404,
                       !.error = "Settings not found"]]
    ELSE [tbl |-> UpdateStmt(tbl, JSONstringify(body), now, id),
          resp |-> [NoResp EXCEPT !.op = "put", !.id = id, !.wire = wire, !.status = 200,
                       !.rid = id, !.data = JSONstringify(body), !.updatedAt = now]]

\* fault seeded into the DELETE handler: a missing record is answered 404
DeleteSettingsStrict(tbl, id) ==
    [tbl |-> DeleteStmt(tbl, id),
     resp |-> [NoResp EXCEPT !.op = "delete", !.id = id,
                  !.status = IF SelectById(tbl, id) = {} THEN 404 ELSE 204]]

\* app.delete('/settings/:id'): [tbl, resp]
DeleteSettings(tbl, id) ==
    [tbl |-> DeleteStmt(tbl, id),
     resp |-> [NoResp EXCEPT !.op = "delete", !.id = id, !.status = 204]]

\* the defaults of the two list handlers
DefaultPage == 1
DefaultLimit == 5
StandaloneDefaultLimit == 10

\* if (x < 1) x = 1
AtLeastOne(x) == IF x < 1 THEN 1 ELSE x

\* Math.ceil(total / limit) || 1
TotalPages(total, limit) ==
    LET c == MathCeilDiv(total, limit) IN IF c = 0 THEN 1 ELSE c

\* rows.map(parseRow)
MapParseRow(rows) == [i \in 1..Len(rows) |-> parseRow(rows[i])]

\* app.get('/settings') of app.js; ord is the order the SELECT returns
ListSettings(tbl, ord, qpage, qlimit) ==
    LET page == AtLeastOne(OrElse(parseInt(qpage), DefaultPage))
        limit == AtLeastOne(OrElse(parseInt(qlimit), DefaultLimit))
        offset == (page - 1) * limit
        total == CountStmt(tbl)
        rows == LimitOffset(ord, limit, offset)
    IN [NoResp EXCEPT !.op = "list", !.qpage = qpage, !.qlimit = qlimit, !.status = 200,
           !.rows = MapParseRow(rows), !.page = page, !.limit = limit,
           !.total = total, !.totalPages = TotalPages(total, limit)]

\* app.get('/settings') of the stand-alone server index.js: no clamping, the
\* default limit is 10 and totalPages has no floor
ListSettingsStandalone(tbl, ord, qpage, qlimit) ==
    LET page == OrElse(parseInt(qpage), DefaultPage)
        limit == OrElse(parseInt(qlimit), StandaloneDefaultLimit)
        offset == (page - 1) * limit
        total == CountStmt(tbl)
        rows == LimitOffset(ord, limit, offset)
    IN [NoResp EXCEPT !.op = "listStandalone", !.qpage = qpage, !.qlimit = qlimit,
           !.status = 200,
           !.rows = MapParseRow(rows), !.page = page, !.limit = limit,
           !.total = total, !.totalPages = MathCeilDiv(total, limit)]

----------------------------------------------------------------------------
(* History, kept beside the program's state for the properties: for each   *)
(* id the body and the timestamps of the POST that created it, and whether *)
(* the record is untouched (no PUT answered 200, no DELETE) since.         *)

NoHist == [st |-> "never", wire |-> <<>>, createdAt |-> -1, updatedAt |-> -1, intact |-> FALSE]

HistAfterPost(h, r) ==
    IF r.status = 201
    THEN [h EXCEPT ![r.rid] = [st |-> "live", wire |-> r.wire, createdAt |-> r.createdAt,
                                updatedAt |-> r.updatedAt, intact |-> TRUE]]
    ELSE h

HistAfterPut(h, r) ==
    IF r.status = 200 /\ r.id \in DOMAIN h
    THEN [h EXCEPT ![r.id] = [@ EXCEPT !.wire = <<>>, !.updatedAt = -1, !.intact = FALSE]]
    ELSE h

HistAfterDelete(h, id) ==
    IF id \in DOMAIN h /\ h[id].st = "live"
    THEN [h EXCEPT ![id] = [NoHist EXCEPT !.st = "gone"]]
    ELSE h

----------------------------------------------------------------------------
(* The state machine *)

\* no callback made (yet)
NoCalls == [onChange |-> FALSE, onValidationChange |-> FALSE]

\* the editor while it is not mounted (raw mode): no entries; isJsonValid is
\* the parent's initial useState(true)
EditorNotMounted ==
    /\ editorMode = "raw"
    /\ fields = <<>>
    /\ nextId = 0
    /\ jsonInput = <<>>
    /\ isJsonValid = TRUE
    /\ calls = NoCalls

\* the App as its useState calls leave it, nothing in flight
NoId == "none"
NoTimer == -1
NoRequest == [op |-> "none", body |-> <<>>, status |-> 0]
AppIdle ==
    /\ editingId = NoId
    /\ error = <<>>
    /\ success = <<>>
    /\ settings = <<>>
    /\ pagination = [page |-> 1, totalPages |-> 1]
    /\ loading = FALSE
    /\ fetches = <<>>
    /\ timer = NoTimer
    /\ shownFor = 0
    /\ pending = <<>>
    /\ sent = NoRequest

Init ==
    /\ table = {}
    /\ clock = 0
    /\ issued = {}
    /\ resp = NoResp
    /\ hist = [id \in Ids |-> NoHist]
    /\ AppIdle
    /\ EditorNotMounted

\* a millisecond passes
Tick ==
    /\ resp = NoResp
    /\ UNCHANGED <<builder, app>>
    /\ clock < MaxClock
    /\ clock' = clock + 1
    /\ UNCHANGED <<table, issued, resp, hist>>

\* the response is sent (res.json, res.send): the request is over
Reply ==
    /\ resp # NoResp
    /\ UNCHANGED <<builder, app>>
    /\ resp' = NoResp
    /\ UNCHANGED <<table, clock, issued, hist>>

\* POST /settings with a body out of `bodies`
PostOf(bodies) ==
    /\ resp = NoResp
    /\ UNCHANGED <<builder, app>>
    /\ \E wire \in bodies :
        LET parsed == expressJson(wire) IN
        IF ~parsed.ok
        THEN /\ resp' = BadRequest("post", "", wire)
             /\ UNCHANGED <<table, clock, issued, hist>>
        ELSE \E id \in uuidv4(issued) :
                LET out == PostSettings(table, wire, parsed.body, id, Now) IN
                /\ table' = out.tbl
                /\ resp' = out.resp
                /\ issued' = issued \cup {id}
                /\ hist' = HistAfterPost(hist, out.resp)
                /\ UNCHANGED clock

\* GET /settings (app.js)
List ==
    \E qpage \in PageValues, qlimit \in LimitValues, ord \in Orderings(table) :
        /\ resp = NoResp
        /\ UNCHANGED <<builder, app>>
        /\ resp' = ListSettings(table, ord, qpage, qlimit)
        /\ UNCHANGED <<table, clock, issued, hist>>

\* GET /settings (index.js)
ListStandalone ==
    \E qpage \in PageValues, qlimit \in LimitValues, ord \in Orderings(table) :
        /\ resp = NoResp
        /\ UNCHANGED <<builder, app>>
        /\ resp' = ListSettingsStandalone(table, ord, qpage, qlimit)
        /\ UNCHANGED <<table, clock, issued, hist>>

\* GET /settings/:id
Get ==
    \E id \in PathIds :
        /\ resp = NoResp
        /\ UNCHANGED <<builder, app>>
        /\ resp' = GetSettings(table, id)
        /\ UNCHANGED <<table, clock, issued, hist>>

\* PUT /settings/:id with a body out of `bodies`
PutOf(bodies) ==
    /\ resp = NoResp
    /\ UNCHANGED <<builder, app>>
    /\ \E id \in PathIds, wire \in bodies :
        LET parsed == expressJson(wire) IN
        IF ~parsed.ok
        THEN /\ resp' = BadRequest("put", id, wire)
             /\ UNCHANGED <<table, clock, issued, hist>>
        ELSE LET out == PutSettings(table, wire, parsed.body, id, Now) IN
             /\ table' = out.tbl
             /\ resp' = out.resp
             /\ hist' = HistAfterPut(hist, out.resp)
             /\ UNCHANGED <<clock, issued>>

\* DELETE /settings/:id
Delete ==
    \E id \in PathIds :
        LET out == DeleteSettings(table, id) IN
        /\ resp = NoResp
        /\ UNCHANGED <<builder, app>>
        /\ table' = out.tbl
        /\ resp' = out.resp
        /\ hist' = HistAfterDelete(hist, id)
        /\ UNCHANGED <<clock, issued>>

Post == PostOf(Payloads)
Put == PutOf(Payloads)

\* The store and its single-record operations.  The two GET /settings
\* handlers change nothing, so the store this specification reaches is the
\* store of the whole API.
Next == Tick \/ Reply \/ Post \/ Get \/ Put \/ Delete

Spec == Init /\ [][Next]_vars

\* The list handlers over the same store.  What a list answers depends on
\* the rows' number and timestamps and not on their data, so one body is
\* posted and put here.
PostPlain == PostOf({WireA})
PutPlain == PutOf({WireA})

NextList == Tick \/ Reply \/ PostPlain \/ PutPlain \/ Delete \/ List \/ ListStandalone

SpecList == Init /\ [][NextList]_vars

----------------------------------------------------------------------------
(* Properties of the store and its single-record operations (Spec) *)

\* a body whose JSON text is an object or an array
IsObjectOrArray(wire) == wire # <<>> /\ wire[1].tk \in {"{", "["}

\* the value a JSON text stands for
ValueOf(wire) == JSONparse(wire).v

\* the row of `id` in a table that holds one
RowOf(tbl, id) == CHOOSE r \in tbl : r.id = id

\* a GET of a record that its creating POST is the last to have written gives
\* back what that POST answered
ReadGivesWhatWasCreated ==
    (resp.op = "get" /\ resp.id \in Ids /\ hist[resp.id].st = "live" /\ hist[resp.id].intact)
        => /\ resp.status = 200
           /\ resp.rid = resp.id
           /\ resp.createdAt = hist[resp.id].createdAt
           /\ resp.updatedAt = hist[resp.id].updatedAt
           /\ DeepEqual(ValueOf(resp.data), ValueOf(hist[resp.id].wire))

C2_PutReplacesWholesale ==
    /\ [](resp.op = "put" /\ IsObjectOrArray(resp.wire) /\ SelectById(table, resp.id) # {}
             => resp.status = 200)
    /\ [][(resp'.op = "put" /\ resp'.status = 200)
            => LET id == resp'.id
                   got == GetSettings(table', id)
               IN /\ SelectById(table, id) # {}
                  /\ got.status = 200
                  /\ DeepEqual(ValueOf(got.data), ValueOf(resp'.wire))
                  /\ Keys(ValueOf(got.data)) \subseteq Keys(ValueOf(resp'.wire))
                  /\ got.rid = RowOf(table, id).id
                  /\ got.createdAt = RowOf(table, id).created_at
                  /\ {r \in table' : r.id # id} = {r \in table : r.id # id}
                  /\ Cardinality(SelectById(table', id)) = 1]_vars

\* a record holding keys a and c was replaced by the empty object, beside
\* another record
C2_Witness ==
    /\ resp.op = "put" /\ resp.status = 200 /\ resp.wire = WireEmpty
    /\ Cardinality(table) = 2
    /\ \E r \in table : r.id = resp.id /\ r.data = WireEmpty /\ r.created_at < r.updated_at

\* C3: a PUT for an id that has no record (never created, or deleted) leaves
\* the store unchanged, creating nothing, and the handler answers it 404 with
\* the error 'Settings not found'.
C3_PutIsNeverAnUpsert ==
    [][(resp'.op = "put" /\ SelectById(table, resp'.id) = {})
         => /\ table' = table
            /\ IsObjectOrArray(resp'.wire)
                  => resp'.status = 404 /\ resp'.error = "Settings not found"]_vars

\* a PUT for the id of a deleted record was answered 404
C3_Witness ==
    /\ resp.op = "put" /\ resp.status = 404
    /\ resp.id \in Ids /\ hist[resp.id].st = "gone"

\* C4: DELETE returns 204 whether or not the record exists; after it the
\* record is absent and GET of the id returns 404 'Settings not found' (as it
\* does for every id without a record, whatever its format); deleting again
\* returns 204 and leaves the store as the first delete left it.
C4_DeleteIsIdempotent ==
    /\ [](resp.op = "get" /\ SelectById(table, resp.id) = {}
            => resp.status = 404 /\ resp.error = "Settings not found")
    /\ [][resp'.op = "delete"
            => /\ resp'.status = 204
               /\ SelectById(table', resp'.id) = {}
               /\ {r \in table' : r.id # resp'.id} = {r \in table : r.id # resp'.id}
               /\ GetSettings(table', resp'.id).status = 404
               /\ GetSettings(table', resp'.id).error = "Settings not found"
               /\ DeleteSettings(table', resp'.id).resp.status = 204
               /\ DeleteSettings(table', resp'.id).tbl = table']_vars

\* a DELETE of an id that never had a record, beside an existing record
C4_Witness ==
    /\ resp.op = "delete" /\ resp.status = 204
    /\ resp.id \in Ids /\ hist[resp.id].st = "never" /\ table # {}

\* C5: no two records share an id, and the id a create assigns is the id of no
\* record that exists or ever existed.
C5_IdsUniqueNeverReused ==
    /\ [](\A r1 \in table, r2 \in table : r1.id = r2.id => r1 = r2)
    /\ [][(resp'.op = "post" /\ resp'.status = 201)
            => /\ hist[resp'.rid].st = "never"
               /\ SelectById(table, resp'.rid) = {}
               /\ Cardinality(SelectById(table', resp'.rid)) = 1]_vars

\* a create after a delete
C5_Witness ==
    /\ resp.op = "post" /\ resp.status = 201
    /\ \E id \in Ids : hist[id].st = "gone"

\* C6: every record of every reachable store has createdAt <= updatedAt.
C6_CreatedNotAfterUpdated ==
    \A r \in table : r.created_at <= r.updated_at

\* a record updated in a later millisecond than it was created in
C6_Witness ==
    /\ resp.op = "put" /\ resp.status = 200
    /\ \E r \in table : r.id = resp.id /\ r.created_at < r.updated_at

\* C7 as stated: after a PUT answered 200 the record's updatedAt differs from
\* the value it had before, and its createdAt is the value set at creation.
C7_UpdatedAtDiffers ==
    [][(resp'.op = "put" /\ resp'.status = 200)
         => /\ RowOf(table', resp'.id).updated_at # RowOf(table, resp'.id).updated_at
            /\ RowOf(table', resp'.id).created_at = hist[resp'.id].createdAt]_vars

\* C7 amended: after a PUT answered 200 the record's updatedAt is the time of
\* that PUT, which is not before the value it had and differs from it exactly
\* when the clock's millisecond reading has moved on since that value was
\* written; its createdAt is the value set at creation.
C7_UpdatedAtIsTimeOfPut ==
    [][(resp'.op = "put" /\ resp'.status = 200)
         => LET old == RowOf(table, resp'.id)
                new == RowOf(table', resp'.id)
            IN /\ new.updated_at = clock
               /\ resp'.updatedAt = new.updated_at
               /\ new.updated_at >= old.updated_at
               /\ (new.updated_at # old.updated_at) <=> (clock > old.updated_at)
               /\ new.created_at = hist[resp'.id].createdAt
               /\ new.created_at = old.created_at]_vars

\* a PUT in a later millisecond than the record's last write
C7_Witness ==
    /\ resp.op = "put" /\ resp.status = 200
    /\ \E r \in table : r.id = resp.id /\ r.updated_at = clock /\ r.created_at < clock

----------------------------------------------------------------------------
(* Properties of the list handlers (SpecList) *)

\* a response of either GET /settings handler
IsList(r) == r.op \in {"list", "listStandalone"}

\* ceil(a / b) for a >= 0 and b >= 1: the least q with q * b >= a
CeilQuotient(a, b) == CHOOSE q \in 0..a : q * b >= a /\ \A p \in 0..a : p * b >= a => q <= p

\* C8: for every list request in every store state, totalPages is
\* max(1, ceil(total / effective limit)); listing an empty store returns
\* data = [], total = 0 and totalPages = 1, never 0.
C8_TotalPagesAtLeastOne ==
    IsList(resp)
        => /\ resp.total = Cardinality(table)
           /\ resp.totalPages = IF resp.limit >= 1 /\ CeilQuotient(resp.total, resp.limit) >= 1
                                THEN CeilQuotient(resp.total, resp.limit)
                                ELSE 1
           /\ table = {} => resp.rows = <<>> /\ resp.total = 0 /\ resp.totalPages = 1

\* C9: a list request whose page or limit parses to a negative integer is
\* answered 200 with the effective value clamped to 1; page=-1&limit=-1 reports
\* page 1 and limit 1 and returns at most one record.
C9_NegativeClampedToOne ==
    IsList(resp)
        => /\ resp.qpage = Given(<<"-", "1">>) => resp.status = 200 /\ resp.page = 1
           /\ resp.qlimit = Given(<<"-", "1">>)
                 => resp.status = 200 /\ resp.limit = 1 /\ Len(resp.rows) <= 1

\* C10 as stated: a list request whose limit parses to 0 uses the effective
\* limit 1, and one whose page parses to 0 the effective page 1: zero is floored
\* to 1, not replaced by the default.  (Stated of the handler of app.js.)
C10_ZeroFlooredToOne ==
    resp.op = "list"
        => /\ resp.qpage = Given(<<"0">>) => resp.page = 1
           /\ resp.qlimit = Given(<<"0">>) => resp.limit = 1

\* C10 amended: in app.js a list request whose limit parses to 0 is answered
\* 200 with the default limit 5 (0 || 5 replaces the zero before the floor is
\* applied), and one whose page parses to 0 with page 1, where the default and
\* the floor coincide.
C10_ZeroTakesTheDefault ==
    resp.op = "list"
        => /\ resp.qpage = Given(<<"0">>) => resp.status = 200 /\ resp.page = 1
           /\ resp.qlimit = Given(<<"0">>) => resp.status = 200 /\ resp.limit = 5

\* limit=0 on a store of two records: both are returned, under limit 5
C10_Witness ==
    /\ resp.op = "list" /\ resp.qlimit = Given(<<"0">>) /\ resp.qpage = Given(<<"0">>)
    /\ resp.limit = 5 /\ Len(resp.rows) = 2

\* C11: a list request whose page or limit is missing or non-numeric uses the
\* default for that parameter, page 1 and limit 5, and the pagination block
\* reports these effective values.
C11_DefaultsOneAndFive ==
    IsList(resp)
        => /\ resp.qpage \in {Absent, Given(<<"a", "b", "c">>)} => resp.page = 1
           /\ resp.qlimit \in {Absent, Given(<<"x", "y", "z">>)} => resp.limit = 5

\* C12: a page or limit with a decimal part is truncated toward zero before
\* it is used: page=1.5 gives the effective page 1, limit=2.9 the effective
\* limit 2, and the rows returned are those of that page and limit.
C12_DecimalsTruncated ==
    IsList(resp)
        => /\ resp.qpage = Given(<<"1", ".", "5">>)
                 => resp.page = 1 /\ (resp.limit >= 1 => Len(resp.rows) <= resp.limit)
           /\ resp.qlimit = Given(<<"2", ".", "9">>)
                 => resp.limit = 2 /\ Len(resp.rows) <= 2

\* page=1.5&limit=2.9 on a store of two records: both are on page 1
C12_Witness ==
    /\ IsList(resp)
    /\ resp.qpage = Given(<<"1", ".", "5">>) /\ resp.qlimit = Given(<<"2", ".", "9">>)
    /\ resp.page = 1 /\ resp.limit = 2 /\ Len(resp.rows) = 2

\* the smaller and the larger of two integers
Min(a, b) == IF a <= b THEN a ELSE b
Max(a, b) == IF a >= b THEN a ELSE b

\* C13: for every store state with `total` records and every effective page
\* p >= 1 and limit l >= 1 the list is answered 200 with exactly
\* min(l, max(0, total - (p-1)*l)) records, those at positions (p-1)*l .. of
\* the listing order, and total is the full record count; a page past the end
\* gives an empty array.
C13_PageIsSliceOfListing ==
    (IsList(resp) /\ resp.page >= 1 /\ resp.limit >= 1)
        => LET off == (resp.page - 1) * resp.limit
               n == Min(resp.limit, Max(0, resp.total - off))
           IN /\ resp.status = 200
              /\ resp.total = Cardinality(table)
              /\ Len(resp.rows) = n
              /\ \E ord \in Orderings(table) :
                    \A j \in 1..n : resp.rows[j] = parseRow(ord[off + j])
              /\ off >= resp.total => resp.rows = <<>>

\* two records with limit 1: page 2 holds the second one, totalPages is 2
C13_Witness ==
    /\ resp.op = "list" /\ Cardinality(table) = 2
    /\ resp.page = 2 /\ resp.limit = 1 /\ Len(resp.rows) = 1 /\ resp.totalPages = 2

\* the rows of a table created strictly after, and not before, an instant
CreatedAfter(tbl, t) == {x \in tbl : x.created_at > t}
CreatedNotBefore(tbl, t) == {x \in tbl : x.created_at >= t}

\* C14: list responses are ordered by createdAt descending.  Within a page a
\* record created strictly later comes first; across pages, the record at
\* position k of the listing has fewer than k records created strictly after
\* it and at least k created not before it, so every record created later
\* is on this page before it or on an earlier page.
C14_NewestFirst ==
    resp.op = "list"
        => LET off == (resp.page - 1) * resp.limit IN
           /\ \A i, j \in 1..Len(resp.rows) :
                 i < j => resp.rows[i].createdAt >= resp.rows[j].createdAt
           /\ \A j \in 1..Len(resp.rows) :
                 /\ Cardinality(CreatedAfter(table, resp.rows[j].createdAt)) <= off + j - 1
                 /\ Cardinality(CreatedNotBefore(table, resp.rows[j].createdAt)) >= off + j

\* page 2 under limit 1 of two records created at different instants: the
\* older one
C14_Witness ==
    /\ resp.op = "list" /\ resp.page = 2 /\ resp.limit = 1 /\ Len(resp.rows) = 1
    /\ CreatedAfter(table, resp.rows[1].createdAt) # {}

----------------------------------------------------------------------------
(* Properties of POST /settings (Spec) *)

----------------------------------------------------------------------------
(* Texts.  What the user types, what the editor shows and what it hands    *)
(* its parent are texts: sequences of characters.  The characters that     *)
(* occur are letters, digits, space, newline, '-', '+', the double quote,  *)
(* the backslash and JSON's punctuation: no '.', no exponent, no hex, so   *)
(* every number that occurs is a decimal integer.                          *)

DigitChar == <<"0", "1", "2", "3", "4", "5", "6", "7", "8", "9">>

\* the decimal digits of a natural number
RECURSIVE DigitsOf(_)
DigitsOf(n) ==
    IF n < 10 THEN <<DigitChar[n + 1]>>
    ELSE DigitsOf(n \div 10) \o <<DigitChar[(n % 10) + 1]>>

\* String(n) of an integer
NumberToString(n) == IF n < 0 THEN <<"-">> \o DigitsOf(0 - n) ELSE DigitsOf(n)

WhiteSpace == {" ", "\n"}
Punctuation == {"{", "}", "[", "]", ":", ","}
TrueText == <<"t", "r", "u", "e">>
FalseText == <<"f", "a", "l", "s", "e">>
NullText == <<"n", "u", "l", "l">>

\* the text at position i starts with the word w
StartsWith(cs, i, w) == i + Len(w) - 1 <= Len(cs) /\ SubSeq(cs, i, i + Len(w) - 1) = w

\* a string literal's characters as JSON.stringify writes them: the double
\* quote and the backslash are escaped
RECURSIVE Escape(_)
Escape(cs) ==
    IF cs = <<>> THEN <<>>
    ELSE (IF Head(cs) \in {"\"", "\\"} THEN <<"\\", Head(cs)>> ELSE <<Head(cs)>>)
         \o Escape(Tail(cs))

\* the text of one token
TokenText(tok) ==
    CASE tok.tk = "num"   -> NumberToString(tok.n)
      [] tok.tk = "str"   -> <<"\"">> \o Escape(tok.s) \o <<"\"">>
      [] tok.tk = "true"  -> TrueText
      [] tok.tk = "false" -> FalseText
      [] tok.tk = "null"  -> NullText
      [] OTHER            -> <<tok.tk>>

\* JSON.stringify(value): the tokens written one after the other
RECURSIVE Compact(_)
Compact(toks) == IF toks = <<>> THEN <<>> ELSE TokenText(Head(toks)) \o Compact(Tail(toks))
JSONstringifyText(v) == Compact(JSONstringify(v))

\* JSON.stringify(value, null, 2): a newline and two spaces per level after
\* an opening bracket and after a comma, a newline before a closing bracket,
\* a space after a colon; an empty object or array is written {} or []
Indent(depth) == [k \in 1..(2 * depth) |-> " "]
RECURSIVE Indented(_, _, _)
Indented(toks, i, depth) ==
    IF i > Len(toks) THEN <<>>
    ELSE LET k == toks[i].tk IN
         CASE k \in {"{", "["} ->
                IF i < Len(toks) /\ toks[i + 1].tk \in {"}", "]"}
                THEN <<k, toks[i + 1].tk>> \o Indented(toks, i + 2, depth)
                ELSE <<k, "\n">> \o Indent(depth + 1) \o Indented(toks, i + 1, depth + 1)
           [] k \in {"}", "]"} ->
                <<"\n">> \o Indent(depth - 1) \o <<k>> \o Indented(toks, i + 1, depth - 1)
           [] k = "," -> <<",", "\n">> \o Indent(depth) \o Indented(toks, i + 1, depth)
           [] k = ":" -> <<":", " ">> \o Indented(toks, i + 1, depth)
           [] OTHER -> TokenText(toks[i]) \o Indented(toks, i + 1, depth)
JSONstringifyIndented(v) == Indented(JSONstringify(v), 1, 0)

\* the result of reading a string literal from position i (past the opening
\* quote): its characters and the position past the closing quote
RECURSIVE ReadString(_, _, _)
ReadString(cs, i, acc) ==
    IF i > Len(cs) \/ cs[i] = "\n" THEN [ok |-> FALSE, s |-> <<>>, i |-> 0]
    ELSE IF cs[i] = "\"" THEN [ok |-> TRUE, s |-> acc, i |-> i + 1]
    ELSE IF cs[i] = "\\"
         THEN IF i < Len(cs) /\ cs[i + 1] \in {"\"", "\\"}
              THEN ReadString(cs, i + 2, Append(acc, cs[i + 1]))
              ELSE [ok |-> FALSE, s |-> <<>>, i |-> 0]
    ELSE ReadString(cs, i + 1, Append(acc, cs[i]))

\* the first position from i on that holds no digit
RECURSIVE EndOfDigits(_, _)
EndOfDigits(cs, i) ==
    IF i <= Len(cs) /\ cs[i] \in DOMAIN Digit THEN EndOfDigits(cs, i + 1) ELSE i

\* the tokens of a JSON text, as JSON.parse reads them
NoTokens == [ok |-> FALSE, toks |-> <<>>]
RECURSIVE Lex(_, _, _)
Lex(cs, i, acc) ==
    IF i > Len(cs) THEN [ok |-> TRUE, toks |-> acc]
    ELSE LET c == cs[i] IN
         CASE c \in WhiteSpace -> Lex(cs, i + 1, acc)
           [] c \in Punctuation -> Lex(cs, i + 1, Append(acc, Tok(c)))
           [] c = "\"" ->
                LET r == ReadString(cs, i + 1, <<>>) IN
                IF r.ok THEN Lex(cs, r.i, Append(acc, TokStr(r.s))) ELSE NoTokens
           [] c \in DOMAIN Digit \/ c = "-" ->
                LET from == IF c = "-" THEN i + 1 ELSE i
                    to == EndOfDigits(cs, from)
                    n == DigitsPrefix(cs, from, 0, FALSE)
                IN IF to = from \/ (cs[from] = "0" /\ to > from + 1) THEN NoTokens
                   ELSE Lex(cs, to, Append(acc, TokNum(IF c = "-" THEN 0 - n.n ELSE n.n)))
           [] StartsWith(cs, i, TrueText) -> Lex(cs, i + 4, Append(acc, Tok("true")))
           [] StartsWith(cs, i, FalseText) -> Lex(cs, i + 5, Append(acc, Tok("false")))
           [] StartsWith(cs, i, NullText) -> Lex(cs, i + 4, Append(acc, Tok("null")))
           [] OTHER -> NoTokens

\* JSON.parse(text) of a text of characters
JSONparseText(cs) ==
    LET l == Lex(cs, 1, <<>>) IN IF l.ok THEN JSONparse(l.toks) ELSE SyntaxError

\* text.trim()
RECURSIVE TrimStart(_)
TrimStart(cs) == IF cs # <<>> /\ Head(cs) \in WhiteSpace THEN TrimStart(Tail(cs)) ELSE cs
RECURSIVE TrimEnd(_)
TrimEnd(cs) ==
    IF cs # <<>> /\ cs[Len(cs)] \in WhiteSpace THEN TrimEnd(SubSeq(cs, 1, Len(cs) - 1)) ELSE cs
Trim(cs) == TrimEnd(TrimStart(cs))

\* Number(text): the trimmed text is empty (0) or an optionally signed run
\* of digits; anything else is NaN
ToNumber(cs) ==
    LET t == Trim(cs)
        signed == t # <<>> /\ t[1] \in {"-", "+"}
        from == IF signed THEN 2 ELSE 1
        n == DigitsPrefix(t, from, 0, FALSE)
    IN IF t = <<>> THEN Number(0)
       ELSE IF n.nan \/ EndOfDigits(t, from) # Len(t) + 1 THEN NaN
       ELSE Number(IF t[1] = "-" THEN 0 - n.n ELSE n.n)

----------------------------------------------------------------------------
(* The visual JSON editor, JsonBuilder *)

\* most entries the editor holds at once, and most ids it hands out
MaxFields == 2
MaxNextId == 2

Types == {"string", "number", "boolean", "object"}
Field(id, key, value, type) == [id |-> id, key |-> key, value |-> value, type |-> type]

\* the entry the editor starts with when the initial text does not parse
DefaultField == Field(0, <<"k", "e", "y">>, <<"v", "a", "l", "u", "e">>, "string")

\* typeof val === 'object': objects, arrays and null
TypeofObject(v) == v.t \in {"obj", "arr", "null"}

\* String(val) of a value that is no object
StringOf(v) ==
    CASE v.t = "num" -> NumberToString(v.n)
      [] v.t = "bool" -> IF v.b THEN TrueText ELSE FalseText
      [] OTHER -> v.s

\* Object.entries(parsed): the members of an object, the items of an array
\* under their indices, the characters of a string under theirs, nothing
\* for a number or a boolean (keys that are indices do not occur in the
\* objects, so the order is the members' own)
ObjectEntries(v) ==
    CASE v.t = "obj" -> v.c
      [] v.t = "arr" -> [i \in 1..Len(v.c) |-> Member(DigitsOf(i - 1), v.c[i].v)]
      [] v.t = "str" -> [i \in 1..Len(v.s) |-> Member(DigitsOf(i - 1), JStr(<<v.s[i]>>))]
      [] OTHER -> <<>>

\* fault seeded into parseInitialFields: a text that does not parse leaves
\* the editor without entries
parseInitialFieldsNoDefault(value) ==
    LET r == JSONparseText(value)
        es == ObjectEntries(r.v)
    IN IF ~r.ok \/ r.v.t = "null" THEN <<>>
       ELSE [i \in 1..Len(es) |->
                Field(i - 1, es[i].k,
                      IF TypeofObject(es[i].v) THEN JSONstringifyText(es[i].v)
                                               ELSE StringOf(es[i].v),
                      IF TypeofObject(es[i].v) THEN "object"
                      ELSE IF es[i].v.t = "num" THEN "number"
                      ELSE IF es[i].v.t = "bool" THEN "boolean" ELSE "string")]

\* fault seeded into parseInitialFields: every entry is typed string
parseInitialFieldsAllStrings(value) ==
    LET r == JSONparseText(value)
        es == ObjectEntries(r.v)
    IN IF ~r.ok \/ r.v.t = "null" THEN <<DefaultField>>
       ELSE [i \in 1..Len(es) |->
                Field(i - 1, es[i].k,
                      IF TypeofObject(es[i].v) THEN JSONstringifyText(es[i].v)
                                               ELSE StringOf(es[i].v),
                      "string")]

\* parseInitialFields(): JSON.parse throws on a text that does not parse and
\* Object.entries throws on null; the catch gives the default entry
parseInitialFields(value) ==
    LET r == JSONparseText(value)
        es == ObjectEntries(r.v)
    IN IF ~r.ok \/ r.v.t = "null" THEN <<DefaultField>>
       ELSE [i \in 1..Len(es) |->
                Field(i - 1, es[i].k,
                      IF TypeofObject(es[i].v) THEN JSONstringifyText(es[i].v)
                                               ELSE StringOf(es[i].v),
                      IF TypeofObject(es[i].v) THEN "object"
                      ELSE IF es[i].v.t = "num" THEN "number"
                      ELSE IF es[i].v.t = "bool" THEN "boolean" ELSE "string")]

\* isValidJson(str)
isValidJson(str) == str = <<>> \/ JSONparseText(str).ok

\* the test checkErrors applies to one entry
FieldInError(field) ==
    \/ field.type = "number" /\ field.value # <<>> /\ ToNumber(field.value).nan
    \/ field.type = "object" /\ field.value # <<>> /\ ~isValidJson(field.value)

\* fault seeded into checkErrors: only the last entry is looked at
checkErrorsLastOnly(fieldsToCheck) ==
    fieldsToCheck # <<>> /\ FieldInError(fieldsToCheck[Len(fieldsToCheck)])

\* checkErrors(fieldsToCheck): some entry is in error
checkErrors(fieldsToCheck) ==
    \E i \in 1..Len(fieldsToCheck) : FieldInError(fieldsToCheck[i])

\* fault seeded into the conversion: a boolean is true for any non-empty text
ConvertedTruthy(field) ==
    CASE field.type = "number" ->
           LET n == ToNumber(field.value) IN JNum(IF n.nan THEN 0 ELSE n.n)
      [] field.type = "boolean" -> JBool(field.value # <<>>)
      [] field.type = "object" ->
           LET r == JSONparseText(field.value) IN IF r.ok THEN r.v ELSE JObj(<<>>)
      [] OTHER -> JStr(field.value)

\* the value updateParent gives an entry: Number(value) || 0, value === 'true',
\* JSON.parse(value) or {} when that throws, the text itself
Converted(field) ==
    CASE field.type = "number" ->
           LET n == ToNumber(field.value) IN JNum(IF n.nan THEN 0 ELSE n.n)
      [] field.type = "boolean" -> JBool(field.value = TrueText)
      [] field.type = "object" ->
           LET r == JSONparseText(field.value) IN IF r.ok THEN r.v ELSE JObj(<<>>)
      [] OTHER -> JStr(field.value)

\* newFields.forEach(...): the members of obj after the entries from i on
RECURSIVE BuildObject(_, _, _)
BuildObject(newFields, i, acc) ==
    IF i > Len(newFields) THEN acc
    ELSE BuildObject(newFields, i + 1,
                     IF Trim(newFields[i].key) # <<>>
                     THEN SetMember(acc, newFields[i].key, Converted(newFields[i]))
                     ELSE acc)

\* fault seeded into updateParent: the object is handed on whatever the errors
updateParentAlways(newFields) ==
    /\ isJsonValid' = ~checkErrors(newFields)
    /\ jsonInput' = JSONstringifyIndented(JObj(BuildObject(newFields, 1, <<>>)))
    /\ calls' = [onChange |-> TRUE, onValidationChange |-> TRUE]

\* updateParent(newFields), with the parent's setJsonInput and setIsJsonValid
\* as onChange and onValidationChange (App.jsx)
updateParent(newFields) ==
    LET hasError == checkErrors(newFields) IN
    /\ isJsonValid' = ~hasError
    /\ jsonInput' = IF hasError THEN jsonInput
                    ELSE JSONstringifyIndented(JObj(BuildObject(newFields, 1, <<>>)))
    /\ calls' = [onChange |-> ~hasError, onValidationChange |-> TRUE]

\* a text that is no JSON, and the text the parent starts with (App.jsx);
\* the texts the editor is mounted with
BrokenText == <<"{", "\"", "a", "\"", ":">>
DefaultText == <<"{", "\n", " ", " ", "\"", "k", "e", "y", "\"", ":", " ", "\"", "v", "a", "l", "u", "e", "\"", "\n", "}">>
InitialValues == {DefaultText}

\* the texts the user types into a key and into a value
KeyTexts == {<<" ">>, <<"a">>}
ValueTexts == {<<"7">>, <<"x">>}

\* the editor is mounted with an initial text
InitBuilder ==
    /\ table = {}
    /\ clock = 0
    /\ issued = {}
    /\ resp = NoResp
    /\ hist = [id \in Ids |-> NoHist]
    /\ AppIdle
    /\ \E value \in InitialValues :
          /\ jsonInput = value
          /\ fields = parseInitialFields(value)
    /\ nextId = Len(fields)
    /\ isJsonValid = TRUE
    /\ editorMode = "visual"
    /\ calls = NoCalls

\* fault seeded into addField: the new entry takes the number of entries
\* as its id
AddFieldReuseId ==
    /\ editorMode = "visual"
    /\ Len(fields) < MaxFields
    /\ nextId < MaxNextId
    /\ LET newFields == Append(fields, Field(Len(fields), <<>>, <<>>, "string")) IN
       /\ fields' = newFields
       /\ nextId' = nextId + 1
       /\ updateParent(newFields)
    /\ UNCHANGED <<editorMode, api, app>>

\* addField()
AddField ==
    /\ editorMode = "visual"
    /\ Len(fields) < MaxFields
    /\ nextId < MaxNextId
    /\ LET newFields == Append(fields, Field(nextId, <<>>, <<>>, "string")) IN
       /\ fields' = newFields
       /\ nextId' = nextId + 1
       /\ updateParent(newFields)
    /\ UNCHANGED <<editorMode, api, app>>

\* removeField(id)
RemoveField ==
    /\ editorMode = "visual"
    /\ \E i \in 1..Len(fields) :
          LET newFields == SelectSeq(fields, LAMBDA f : f.id # fields[i].id) IN
          /\ fields' = newFields
          /\ updateParent(newFields)
    /\ UNCHANGED <<nextId, editorMode, api, app>>

\* updateField(id, property, newValue)
updateField(id, property, newValue) ==
    LET newFields == [i \in 1..Len(fields) |->
                         IF fields[i].id = id
                         THEN [fields[i] EXCEPT ![property] = newValue]
                         ELSE fields[i]]
    IN /\ fields' = newFields
       /\ updateParent(newFields)

\* the key input changes
EditKey ==
    /\ editorMode = "visual"
    /\ \E i \in 1..Len(fields), text \in KeyTexts : updateField(fields[i].id, "key", text)
    /\ UNCHANGED <<nextId, editorMode, api, app>>

\* the value input changes; a boolean entry has a select of true and false
EditValue ==
    /\ editorMode = "visual"
    /\ \E i \in 1..Len(fields) :
          \E text \in (IF fields[i].type = "boolean" THEN {TrueText, FalseText} ELSE ValueTexts) :
             updateField(fields[i].id, "value", text)
    /\ UNCHANGED <<nextId, editorMode, api, app>>

\* the type select changes to one of `types`
EditTypeOf(types) ==
    /\ editorMode = "visual"
    /\ \E i \in 1..Len(fields), type \in types : updateField(fields[i].id, "type", type)
    /\ UNCHANGED <<nextId, editorMode, api, app>>

EditType == EditTypeOf(Types)

NextBuilder == AddField \/ RemoveField \/ EditKey \/ EditValue \/ EditType

SpecBuilder == InitBuilder /\ [][NextBuilder]_vars

----------------------------------------------------------------------------
(* Mounting the editor.  In raw mode the parent shows a textarea and the   *)
(* JsonBuilder is not mounted; switching to visual mode mounts it with the *)
(* parent's text as its initial value.                                     *)

\* properties as they are written in a JSON object
PropertyTexts ==
    { <<"\"", "s", "\"", ":", "\"", "x", "\"">>,
      <<"\"", "n", "\"", ":", "7">>,
      <<"\"", "m", "\"", ":", "-", "3">>,
      <<"\"", "b", "\"", ":", "f", "a", "l", "s", "e">>,
      <<"\"", "z", "\"", ":", "n", "u", "l", "l">>,
      <<"\"", "o", "\"", ":", "{", "\"", "a", "\"", ":", "[", "t", "r", "u", "e", "]", "}">>,
      <<"\"", "l", "\"", ":", "[", "7", "]">> }

\* an object of the given properties, in order
RECURSIVE Joined(_)
Joined(ps) ==
    IF ps = <<>> THEN <<>>
    ELSE Head(ps) \o (IF Len(ps) > 1 THEN <<",">> ELSE <<>>) \o Joined(Tail(ps))
ObjectText(ps) == <<"{">> \o Joined(ps) \o <<"}">>

\* texts that are no JSON, and JSON texts that are no object
UnparsableTexts == {BrokenText, <<>>, <<"{", "a", ":", "7", "}">>, <<"{", "\"", "a", "\"", ":", "7", ",", "}">>}
OtherJsonTexts == {NullText, <<"7">>, <<"[", "7", ",", "n", "u", "l", "l", "]">>, <<"\"", "a", "b", "\"">>}

\* the texts the textarea can hold when the editor is mounted
MountTexts ==
    {ObjectText(<<>>)}
        \cup {ObjectText(<<p>>) : p \in PropertyTexts}
        \cup {ObjectText(<<p, q>>) : p \in PropertyTexts, q \in PropertyTexts}
        \cup UnparsableTexts \cup OtherJsonTexts

\* raw mode, some text in the textarea
InitMount ==
    /\ table = {}
    /\ clock = 0
    /\ issued = {}
    /\ resp = NoResp
    /\ hist = [id \in Ids |-> NoHist]
    /\ AppIdle
    /\ jsonInput \in MountTexts
    /\ editorMode = "raw"
    /\ fields = <<>>
    /\ nextId = 0
    /\ isJsonValid = TRUE
    /\ calls = NoCalls

\* the Visual button: JsonBuilder is mounted, useState(parseInitialFields)
\* and useState(fields.length) run; no callback is made
ShowVisual ==
    /\ editorMode = "raw"
    /\ editorMode' = "visual"
    /\ fields' = parseInitialFields(jsonInput)
    /\ nextId' = Len(fields')
    /\ calls' = NoCalls
    /\ UNCHANGED <<jsonInput, isJsonValid, api, app>>

\* the Raw JSON button: JsonBuilder is unmounted and its state is gone
ShowRaw ==
    /\ editorMode = "visual"
    /\ editorMode' = "raw"
    /\ fields' = <<>>
    /\ nextId' = 0
    /\ UNCHANGED <<jsonInput, isJsonValid, calls, api, app>>

NextMount == ShowVisual \/ ShowRaw

SpecMount == InitMount /\ [][NextMount]_vars

----------------------------------------------------------------------------
(* Properties of the editor's gestures (SpecBuilder) *)

\* an entry is in error: a number entry whose text is not empty and not
\* numeric, an object entry whose text is not empty and not parseable JSON
EntryInError(f) ==
    \/ f.type = "number" /\ f.value # <<>> /\ ToNumber(f.value).nan
    \/ f.type = "object" /\ f.value # <<>> /\ ~JSONparseText(f.value).ok
EntriesValid(fs) == \A i \in 1..Len(fs) : ~EntryInError(fs[i])

\* C16: after every gesture of the visual editor (add, remove, edit key,
\* edit value, edit type) onChange is called iff the whole entry set is valid;
\* while an entry is in error the parent's text stays what it was, and a
\* gesture that leaves the set valid hands on the object built from the
\* entries as they then are.
C16_EmitsIffValid ==
    [][/\ calls'.onChange <=> EntriesValid(fields')
       /\ ~EntriesValid(fields') => jsonInput' = jsonInput
       /\ EntriesValid(fields')
             => /\ JSONparseText(jsonInput').ok
                /\ DeepEqual(JSONparseText(jsonInput').v,
                             JObj(BuildObject(fields', 1, <<>>)))]_vars

\* the number entry was 7, is now x: nothing is handed on and the parent
\* still holds {"key": 7}
C16_Witness ==
    /\ fields = <<Field(0, <<"k", "e", "y">>, <<"x">>, "number")>>
    /\ ~calls.onChange /\ calls.onValidationChange
    /\ jsonInput = JSONstringifyIndented(JObj(<<Member(<<"k", "e", "y">>, JNum(7))>>))

\* C17: after every gesture onValidationChange is called, with true iff no
\* entry of the whole current entry set is in error.
C17_ValidityAlwaysReported ==
    [][calls'.onValidationChange /\ (isJsonValid' <=> EntriesValid(fields'))]_vars

\* two entries, the first in error and the last one not: reported invalid
C17_Witness ==
    /\ Len(fields) = 2 /\ EntryInError(fields[1]) /\ ~EntryInError(fields[2])
    /\ calls.onValidationChange /\ ~isJsonValid

\* the entries whose key is not blank, and the last entry of a key
Keyed(fs) == {i \in 1..Len(fs) : Trim(fs[i].key) # <<>>}
LastOfKey(fs, i) == \A j \in Keyed(fs) : fs[j].key = fs[i].key => j <= i

\* the value of an entry by its type: the parsed number, or 0 when the text
\* is empty; true iff the text is exactly true; the parsed JSON; the text
ValueByType(f) ==
    CASE f.type = "number" ->
           [ok |-> ~ToNumber(f.value).nan,
            v |-> JNum(IF f.value = <<>> THEN 0 ELSE ToNumber(f.value).n)]
      [] f.type = "boolean" -> [ok |-> TRUE, v |-> JBool(f.value = TrueText)]
      [] f.type = "object" ->
           [ok |-> JSONparseText(f.value).ok, v |-> JSONparseText(f.value).v]
      [] OTHER -> [ok |-> TRUE, v |-> JStr(f.value)]

\* the same, an object entry of empty text giving {}
ValueByTypeOrEmpty(f) ==
    IF f.type = "object" /\ f.value = <<>> THEN [ok |-> TRUE, v |-> JObj(<<>>)]
    ELSE ValueByType(f)

\* the text handed to the parent is the object of the last entry of each
\* non-blank key, each with the value `by` gives it
EmittedIs(by(_)) ==
    LET obj == JSONparseText(jsonInput) IN
    /\ obj.ok /\ obj.v.t = "obj"
    /\ Keys(obj.v) = {fields[i].key : i \in Keyed(fields)}
    /\ \A i \in Keyed(fields) :
          LastOfKey(fields, i)
             => /\ by(fields[i]).ok
                /\ \E m \in 1..Len(obj.v.c) :
                      /\ obj.v.c[m].k = fields[i].key
                      /\ DeepEqual(obj.v.c[m].v, by(fields[i]).v)

\* C18 as stated: whenever the entry set is valid, the emitted object is the
\* result of iterating the entries in order, skipping blank keys, converting
\* each value by its type (number: parsed number, or 0 when empty; boolean:
\* true iff exactly "true"; object: parsed JSON; string: the text), a later
\* entry overwriting an earlier one of the same key; no entries emit {}.
C18_EmittedByType ==
    calls.onChange => EmittedIs(ValueByType)

\* C18 amended: the same, with an object entry converted to the parsed JSON,
\* or to {} when its text is empty.
C18_EmittedByTypeOrEmpty ==
    calls.onChange => EmittedIs(ValueByTypeOrEmpty)

\* two entries of the key a with different texts, handed on
C18_Witness ==
    /\ Len(fields) = 2 /\ calls.onChange
    /\ fields[1].key = <<"a">> /\ fields[2].key = <<"a">>
    /\ fields[1].type = "boolean" /\ fields[1].value = TrueText
    /\ fields[2].type = "number" /\ fields[2].value = <<"7">>

----------------------------------------------------------------------------
(* Properties of the editor's initial entries (SpecMount) *)

\* C19: if the initial text does not parse as JSON the editor starts with
\* exactly one entry (key "key", value "value", type string), no entry is
\* shown in error, and mounting calls neither onChange nor
\* onValidationChange: the parent's flag is not set to invalid.
C19_UnparsableGivesDefault ==
    (editorMode = "visual" /\ ~JSONparseText(jsonInput).ok)
        => /\ fields = <<[id |-> 0, key |-> <<"k", "e", "y">>,
                          value |-> <<"v", "a", "l", "u", "e">>, type |-> "string"]>>
           /\ nextId = 1
           /\ EntriesValid(fields)
           /\ calls = NoCalls /\ isJsonValid

\* mounted with the text {"a":
C19_Witness ==
    editorMode = "visual" /\ jsonInput = BrokenText /\ Len(fields) = 1

\* the entries of the initial object are its members in order, each with
\* the type and the text the two operators give its value
InitialEntriesAre(typeOf(_), textOf(_)) ==
    LET obj == JSONparseText(jsonInput).v IN
    /\ Len(fields) = Len(obj.c)
    /\ \A i \in 1..Len(fields) :
          /\ fields[i].id = i - 1
          /\ fields[i].key = obj.c[i].k
          /\ fields[i].type = typeOf(obj.c[i].v)
          /\ fields[i].value = textOf(obj.c[i].v)

\* the text of a value: JSON text for objects and arrays, String(val) else
TextOfValue(v) ==
    CASE v.t \in {"obj", "arr"} -> JSONstringifyText(v)
      [] v.t = "null" -> NullText
      [] v.t = "num" -> NumberToString(v.n)
      [] v.t = "bool" -> IF v.b THEN TrueText ELSE FalseText
      [] OTHER -> v.s

\* object for objects and arrays, number, boolean, string for all else
TypeNullAsString(v) ==
    CASE v.t \in {"obj", "arr"} -> "object"
      [] v.t = "num" -> "number"
      [] v.t = "bool" -> "boolean"
      [] OTHER -> "string"

\* object for objects, arrays and null, number, boolean, string for strings
TypeNullAsObject(v) ==
    CASE v.t \in {"obj", "arr", "null"} -> "object"
      [] v.t = "num" -> "number"
      [] v.t = "bool" -> "boolean"
      [] OTHER -> "string"

\* the initial text is a JSON object
MountedWithObject ==
    /\ editorMode = "visual"
    /\ JSONparseText(jsonInput).ok /\ JSONparseText(jsonInput).v.t = "obj"

\* C20 as stated: if the initial value parses as a JSON object the editor
\* starts with one entry per top-level property in encounter order, typed
\* object (value re-serialized as JSON text) for object or array values,
\* number for numbers, boolean for booleans and string for every other
\* value, including null.
C20_TypedNullAsString ==
    MountedWithObject => InitialEntriesAre(TypeNullAsString, TextOfValue)

\* C20 amended: the same, with null typed object like objects and arrays
\* (its text is null), and string for strings only.
C20_TypedNullAsObject ==
    MountedWithObject => InitialEntriesAre(TypeNullAsObject, TextOfValue)

\* mounted with {"o":{"a":[true]},"z":null}: two object entries
C20_Witness ==
    /\ MountedWithObject /\ Len(fields) = 2
    /\ fields[1].type = "object" /\ fields[1].value = JSONstringifyText(JSONparseText(fields[1].value).v)
    /\ fields[1].key = <<"o">>
    /\ fields[2].key = <<"z">> /\ fields[2].value = NullText

----------------------------------------------------------------------------
(* Properties of the entries' ids (SpecBuilder) *)

\* the entries without the i-th
Without(fs, i) == SubSeq(fs, 1, i - 1) \o SubSeq(fs, i + 1, Len(fs))

\* C26: the ids of the entries are pairwise distinct at all times; the id
\* Add field gives the new entry is one no entry has carried before, removed
\* entries included (every id carried so far is below nextId, nextId never
\* decreases, and the new entry gets nextId); an edit changes at most the
\* one entry of that id and a removal takes out exactly one entry, the
\* other entries and their order staying as they are.
C26_IdsDistinctAndFresh ==
    /\ [](/\ \A i, j \in 1..Len(fields) : fields[i].id = fields[j].id => i = j
          /\ \A i \in 1..Len(fields) : fields[i].id < nextId)
    /\ [][/\ nextId' >= nextId
          /\ Len(fields') > Len(fields)
                => /\ fields' = Append(fields, fields'[Len(fields')])
                   /\ fields'[Len(fields')].id = nextId
                   /\ nextId' = nextId + 1
          /\ Len(fields') = Len(fields)
                => /\ \A i \in 1..Len(fields) : fields'[i].id = fields[i].id
                   /\ Cardinality({i \in 1..Len(fields) : fields'[i] # fields[i]}) <= 1
          /\ Len(fields') < Len(fields)
                => \E i \in 1..Len(fields) : fields' = Without(fields, i)]_vars

\* the first entry was removed and an entry was added
C26_Witness ==
    /\ Len(fields) = 1
    /\ fields[1].id = 1
    /\ nextId = 2

----------------------------------------------------------------------------
(* Properties of boolean entries (SpecBuilder) *)

\* the option the select of a boolean entry shows: <select value={field.value}>
\* over the options true and false; with a value that is neither, no option
\* matches and the first one, true, is the one shown
ShownChoice(field) == IF field.value = FalseText THEN FalseText ELSE TrueText

\* C28: in every reachable editor state an entry typed boolean has the raw
\* value "true" or "false", and the boolean it is emitted as is the choice
\* its select shows.
C28_BooleanValueIsAChoice ==
    \A i \in 1..Len(fields) :
       fields[i].type = "boolean"
          => /\ fields[i].value \in {TrueText, FalseText}
             /\ Converted(fields[i]) = JBool(ShownChoice(fields[i]) = TrueText)

----------------------------------------------------------------------------
(* Overlapping writes.  The App sends a POST or a PUT without waiting for  *)
(* the writes it sent before; the requests reach the server in any order.  *)
(* The handlers of app.js are synchronous (better-sqlite3), so the server  *)
(* runs the handler of one request to its end before it takes the next.    *)

\* at most this many writes are in flight
MaxPending == 2

\* handleCreate's fetch(API_URL, {method: 'POST', body}) leaves the browser
SendPost ==
    /\ Len(pending) < MaxPending
    /\ \E wire \in {WireA, WireB} :
          pending' = Append(pending, [op |-> "post", id |-> "", wire |-> wire])
    /\ UNCHANGED <<api, builder, editingId, error, success, settings, pagination,
                   loading, fetches, timer, shownFor, sent>>

\* handleUpdate's fetch(`${API_URL}/${editingId}`, {method: 'PUT', body})
\* leaves the browser
SendPut ==
    /\ Len(pending) < MaxPending
    /\ \E id \in Ids, wire \in {WireA, WireB} :
          pending' = Append(pending, [op |-> "put", id |-> id, wire |-> wire])
    /\ UNCHANGED <<api, builder, editingId, error, success, settings, pagination,
                   loading, fetches, timer, shownFor, sent>>

\* history of an id after a PUT has landed: the body and the time of the
\* write that landed last
HistAfterLanding(h, r) ==
    IF r.status = 200 /\ r.id \in DOMAIN h
    THEN [h EXCEPT ![r.id] = [@ EXCEPT !.wire = r.wire, !.updatedAt = r.updatedAt,
                                       !.intact = FALSE]]
    ELSE h

\* the server takes one of the writes in flight and runs its handler
Serve ==
    /\ resp = NoResp
    /\ \E i \in 1..Len(pending) :
          LET req == pending[i]
              parsed == expressJson(req.wire)
          IN /\ pending' = SubSeq(pending, 1, i - 1) \o SubSeq(pending, i + 1, Len(pending))
             /\ IF req.op = "post"
                THEN \E id \in uuidv4(issued) :
                        LET out == PostSettings(table, req.wire, parsed.body, id, Now) IN
                        /\ table' = out.tbl
                        /\ resp' = out.resp
                        /\ issued' = issued \cup {id}
                        /\ hist' = HistAfterPost(hist, out.resp)
                ELSE LET out == PutSettings(table, req.wire, parsed.body, req.id, Now) IN
                     /\ table' = out.tbl
                     /\ resp' = out.resp
                     /\ hist' = HistAfterLanding(hist, out.resp)
                     /\ UNCHANGED issued
    /\ UNCHANGED <<clock, builder, editingId, error, success, settings, pagination,
                   loading, fetches, timer, shownFor, sent>>

NextOverlap == SendPost \/ SendPut \/ Serve \/ Reply \/ Tick

SpecOverlap == Init /\ [][NextOverlap]_vars

----------------------------------------------------------------------------
(* Properties of overlapping writes (SpecOverlap) *)

\* C24: overlapping writes all execute, none is deduplicated: a POST that
\* lands adds a record under an id no record has, whatever the store holds
\* already, so two creates of one payload give two records with distinct
\* ids; and a record holds exactly the payload of the write that landed last
\* on its id together with the time of that same write, never parts of two.
C24_OverlappingWritesAllLand ==
    /\ [](/\ \A r1 \in table, r2 \in table : r1.id = r2.id => r1 = r2
          /\ \A r \in table :
                /\ hist[r.id].st = "live"
                /\ r.data = JSONstringify(JSONparse(hist[r.id].wire).v)
                /\ r.updated_at = hist[r.id].updatedAt)
    /\ [][(resp'.op = "post" /\ resp' # resp)
             => /\ resp'.status = 201
                /\ SelectById(table, resp'.rid) = {}
                /\ table' = table \cup {Row(resp'.rid, JSONstringify(JSONparse(resp'.wire).v),
                                            clock, clock)}]_vars
    /\ [][(resp'.op = "put" /\ resp'.status = 200)
             => table' = {IF r.id = resp'.id
                          THEN Row(r.id, JSONstringify(JSONparse(resp'.wire).v),
                                   r.created_at, clock)
                          ELSE r : r \in table}]_vars

\* all writes have landed: two records hold one payload under distinct ids,
\* and a PUT has just landed on a record written before
C24_Witness ==
    /\ pending = <<>>
    /\ \E r1 \in table, r2 \in table : r1.id # r2.id /\ r1.data = r2.data
    /\ resp.op = "put" /\ resp.status = 200
    /\ \E r \in table : r.id = resp.id /\ r.updated_at > r.created_at

----------------------------------------------------------------------------
(* The App around the editor: the textarea of raw mode, the Create, Update,*)
(* Edit, Cancel and Delete buttons.  Here every request is answered before *)
(* the next gesture: a handler and the fetches it awaits are one step.     *)

\* the store holds at most this many records here
MaxRecords == 1

\* fault seeded into validateJson: every text passes
validateJsonAnything(str) == TRUE

\* validateJson(str): JSON.parse(str) does not throw
validateJson(str) == JSONparseText(str).ok

\* the Create and Update buttons: disabled={editorMode === 'visual' && !isJsonValid}
SubmitDisabled == editorMode = "visual" /\ ~isJsonValid

\* the body of a request as the server's parser reads it
WireOf(text) == LET l == Lex(text, 1, <<>>) IN IF l.ok THEN l.toks ELSE <<>>

\* the texts typed into the textarea of raw mode: no JSON, a JSON string,
\* an object
RawTexts == {BrokenText, <<"\"", "x", "\"">>, ObjectText(<<<<"\"", "n", "\"", ":", "7">>>>)}

\* the message of a create, in pieces
CreatedMessage(id) == <<"Created successfully! ID: ", id>>

\* the call the App made last: its method, its body, and the status it
\* ended with (0: the fetch was rejected, no response)
Call(op, body, status) == [op |-> op, body |-> body, status |-> status]

\* fetchSettings(page), answered at once: the list and the pagination are
\* those of the response
fetchSettings(tbl, page) ==
    \E ord \in Orderings(tbl) :
       LET r == ListSettings(tbl, ord, Given(NumberToString(page)), Given(<<"5">>)) IN
       /\ settings' = r.rows
       /\ pagination' = [page |-> r.page, totalPages |-> r.totalPages]
       /\ loading' = FALSE

\* the textarea's onChange
RawInput ==
    /\ editorMode = "raw"
    /\ jsonInput' \in RawTexts
    /\ UNCHANGED <<api, fields, nextId, isJsonValid, editorMode, calls, editingId, error,
                   success, settings, pagination, loading, fetches, timer, shownFor,
                   pending, sent>>

\* handleCreate(), by the Create button
handleCreate ==
    /\ Cardinality(table) < MaxRecords
    /\ editingId = NoId
    /\ ~SubmitDisabled
    /\ UNCHANGED <<clock, resp, fields, nextId, isJsonValid, editorMode, calls, editingId,
                   fetches, timer, shownFor, pending>>
    /\ IF ~validateJson(jsonInput)
       THEN /\ error' = <<"Invalid JSON format">>
            /\ UNCHANGED <<table, issued, hist, jsonInput, success, settings, pagination,
                           loading, sent>>
       ELSE \E reached \in BOOLEAN :
               LET parsed == expressJson(WireOf(jsonInput)) IN
               IF ~reached
               THEN /\ error' = <<"Failed to create settings">>
                    /\ sent' = Call("post", jsonInput, 0)
                    /\ UNCHANGED <<table, issued, hist, jsonInput, success, settings,
                                   pagination, loading>>
               ELSE IF ~parsed.ok
               THEN /\ error' = <<>>
                    /\ sent' = Call("post", jsonInput, 400)
                    /\ UNCHANGED <<table, issued, hist, jsonInput, success, settings,
                                   pagination, loading>>
               ELSE \E id \in uuidv4(issued) :
                       LET out == PostSettings(table, WireOf(jsonInput), parsed.body, id, Now) IN
                       /\ table' = out.tbl
                       /\ issued' = issued \cup {id}
                       /\ hist' = HistAfterPost(hist, out.resp)
                       /\ error' = <<>>
                       /\ sent' = Call("post", jsonInput, out.resp.status)
                       /\ IF out.resp.status = 201
                          THEN /\ jsonInput' = DefaultText
                               /\ success' = CreatedMessage(out.resp.rid)
                               /\ fetchSettings(out.tbl, pagination.page)
                          ELSE UNCHANGED <<jsonInput, success, settings, pagination, loading>>

\* handleUpdate(), by the Update button
handleUpdate ==
    /\ editingId # NoId
    /\ ~SubmitDisabled
    /\ UNCHANGED <<clock, resp, issued, fields, nextId, isJsonValid, editorMode, calls,
                   fetches, timer, shownFor, pending>>
    /\ IF ~validateJson(jsonInput)
       THEN /\ error' = <<"Invalid JSON format">>
            /\ UNCHANGED <<table, hist, jsonInput, editingId, success, settings, pagination,
                           loading, sent>>
       ELSE \E reached \in BOOLEAN :
               LET parsed == expressJson(WireOf(jsonInput))
                   out == PutSettings(table, WireOf(jsonInput), parsed.body, editingId, Now)
               IN
               IF ~reached
               THEN /\ error' = <<"Network error: Failed to update settings">>
                    /\ sent' = Call("put", jsonInput, 0)
                    /\ UNCHANGED <<table, hist, jsonInput, editingId, success, settings,
                                   pagination, loading>>
               ELSE IF ~parsed.ok
               THEN /\ error' = <<"Error ", NumberToString(400), ": Failed to update settings">>
                    /\ sent' = Call("put", jsonInput, 400)
                    /\ UNCHANGED <<table, hist, jsonInput, editingId, success, settings,
                                   pagination, loading>>
               ELSE /\ table' = out.tbl
                    /\ hist' = HistAfterPut(hist, out.resp)
                    /\ sent' = Call("put", jsonInput, out.resp.status)
                    /\ editingId' = NoId
                    /\ jsonInput' = DefaultText
                    /\ fetchSettings(out.tbl, pagination.page)
                    /\ IF out.resp.status = 404
                       THEN /\ error' = <<"Error 404: Settings with ID \"", editingId,
                                       "\" not found. It may have been deleted.">>
                            /\ UNCHANGED success
                       ELSE /\ error' = <<>>
                            /\ success' = <<"Updated successfully!">>

\* handleDelete(id), by the Delete button of a record of the list, the
\* confirm() accepted
handleDelete ==
    /\ ~loading
    /\ UNCHANGED <<clock, resp, issued, builder, editingId, fetches, timer, shownFor, pending>>
    /\ \E i \in 1..Len(settings), reached \in BOOLEAN :
          LET id == settings[i].id
              out == DeleteSettings(table, id)
          IN IF ~reached
             THEN /\ error' = <<"Failed to delete settings">>
                  /\ sent' = Call("delete", <<>>, 0)
                  /\ UNCHANGED <<table, hist, success, settings, pagination, loading>>
             ELSE /\ table' = out.tbl
                  /\ hist' = HistAfterDelete(hist, id)
                  /\ sent' = Call("delete", <<>>, out.resp.status)
                  /\ success' = IF out.resp.status = 204 THEN <<"Deleted successfully!">> ELSE success
                  /\ fetchSettings(out.tbl, pagination.page)
                  /\ UNCHANGED error

\* handleEdit(item), by the Edit button of a record of the list
handleEdit ==
    /\ ~loading
    /\ \E i \in 1..Len(settings) :
          /\ editingId' = settings[i].id
          /\ jsonInput' = JSONstringifyIndented(JSONparse(settings[i].data).v)
    /\ error' = <<>>
    /\ UNCHANGED <<api, fields, nextId, isJsonValid, editorMode, calls, success, settings,
                   pagination, loading, fetches, timer, shownFor, pending, sent>>

\* handleCancel(), by the Cancel button shown while a record is edited
handleCancel ==
    /\ editingId # NoId
    /\ editingId' = NoId
    /\ jsonInput' = DefaultText
    /\ error' = <<>>
    /\ UNCHANGED <<api, fields, nextId, isJsonValid, editorMode, calls, success, settings,
                   pagination, loading, fetches, timer, shownFor, pending, sent>>

\* the App is mounted: visual mode, the editor mounted with the default text
InitApp ==
    /\ table = {}
    /\ clock = 0
    /\ issued = {}
    /\ resp = NoResp
    /\ hist = [id \in Ids |-> NoHist]
    /\ AppIdle
    /\ jsonInput = DefaultText
    /\ fields = parseInitialFields(DefaultText)
    /\ nextId = Len(fields)
    /\ isJsonValid = TRUE
    /\ editorMode = "visual"
    /\ calls = NoCalls

\* Whether the entries are in error is what matters to the App: the type
\* select is moved between string and number here, which puts a text entry
\* in error and takes it out again.
NextApp ==
    \/ EditTypeOf({"string", "number"})
    \/ ShowVisual \/ ShowRaw \/ RawInput
    \/ handleCreate \/ handleUpdate \/ handleDelete \/ handleEdit \/ handleCancel

SpecApp == InitApp /\ [][NextApp]_vars

----------------------------------------------------------------------------
(* Properties of the App around the editor (SpecApp) *)

\* a gesture on the entries of the visual editor
EditorGesture == AddField \/ RemoveField \/ EditKey \/ EditValue \/ EditType

\* C21: every text the visual editor hands to its parent through onChange
\* is syntactically valid JSON, and so is the body of every POST and PUT the
\* App sends, in visual and in raw mode: with a text that does not parse
\* the step makes no call.
C21_OnlyValidJsonIsSent ==
    /\ [][(EditorGesture /\ calls'.onChange) => JSONparseText(jsonInput').ok]_vars
    /\ [](sent.op \in {"post", "put"} => JSONparseText(sent.body).ok)
    /\ [][((handleCreate \/ handleUpdate) /\ ~JSONparseText(jsonInput).ok)
             => /\ sent' = sent
                /\ table' = table
                /\ error' = <<"Invalid JSON format">>]_vars

\* a body was sent in raw mode, and a later submission of a text that is no
\* JSON was turned away
C21_Witness ==
    /\ sent.op \in {"post", "put"}
    /\ editorMode = "raw"
    /\ ~JSONparseText(jsonInput).ok
    /\ error = <<"Invalid JSON format">>

\* C22: in visual mode the Create/Update button is disabled exactly when the
\* entries the editor shows contain a validation error.
C22_DisabledIffEntryInError ==
    editorMode = "visual" => (SubmitDisabled <=> checkErrors(fields))

\* C23: a call of the App that ends with a status that is no success, or
\* with a rejected fetch, leaves an error message on the screen.
C23_FailureShowsAnError ==
    [][(sent' # sent /\ ~(sent'.status \in 200..299)) => error' # <<>>]_vars

\* C27: in visual mode, whenever the entries are valid, the text the parent
\* would submit is the object built from the entries the editor shows.
C27_TextIsTheEntriesObject ==
    (editorMode = "visual" /\ ~checkErrors(fields))
        => /\ JSONparseText(jsonInput).ok
           /\ DeepEqual(JSONparseText(jsonInput).v, JObj(BuildObject(fields, 1, <<>>)))

----------------------------------------------------------------------------
(* The success message and its auto-clear effect:                          *)
(*   useEffect(() => { if (success) { const timer = setTimeout(() =>       *)
(*     setSuccess(''), 5000); return () => clearTimeout(timer); } },       *)
(*     [success])                                                          *)
(* Time is counted in seconds.  The effect runs when the value of success  *)
(* has changed: its cleanup clears the timeout armed before, and a new one *)
(* is armed if the new value is not empty.                                 *)

\* the delay of the timeout, in seconds (5000 ms)
TimerDelay == 5

\* the App is unmounted: the cleanup has run, nothing is armed any more
Unmounted == -2

\* the messages the handlers set
SuccessMessages == {CreatedMessage(id) : id \in Ids} \cup {<<"Updated successfully!">>, <<"Deleted successfully!">>}

\* setSuccess(msg) of a handler, and the effect that follows the render: a
\* message equal to the one shown is no change of state, so the effect does
\* not run and the timeout armed before stays as it is
SetSuccess ==
    /\ timer # Unmounted
    /\ \E msg \in SuccessMessages :
          /\ success' = msg
          /\ timer' = IF msg = success THEN timer ELSE TimerDelay
    /\ shownFor' = 0
    /\ UNCHANGED <<api, builder, editingId, error, settings, pagination, loading,
                   fetches, pending, sent>>

\* a second passes while a timeout is armed and not yet due
SecondPasses ==
    /\ timer > 0
    /\ timer' = timer - 1
    /\ shownFor' = IF shownFor < TimerDelay THEN shownFor + 1 ELSE shownFor
    /\ UNCHANGED <<api, builder, editingId, error, success, settings, pagination,
                   loading, fetches, pending, sent>>

\* the timeout is due: setSuccess(''), and the effect arms nothing
TimerFires ==
    /\ timer = 0
    /\ success' = <<>>
    /\ timer' = NoTimer
    /\ shownFor' = 0
    /\ UNCHANGED <<api, builder, editingId, error, settings, pagination, loading,
                   fetches, pending, sent>>

\* the App is unmounted: the cleanup of the effect clears the timeout
Unmount ==
    /\ timer # Unmounted
    /\ timer' = Unmounted
    /\ UNCHANGED <<api, builder, editingId, error, success, settings, pagination,
                   loading, fetches, shownFor, pending, sent>>

NextSuccess == SetSuccess \/ SecondPasses \/ TimerFires \/ Unmount

\* time passes and a due timeout fires
SpecSuccess ==
    /\ Init
    /\ [][NextSuccess]_vars
    /\ WF_vars(SecondPasses)
    /\ WF_vars(TimerFires)

----------------------------------------------------------------------------
(* Properties of the success message (SpecSuccess) *)

\* C25: a success message that is set is eventually cleared by the timer
\* unless it is replaced or the App is unmounted first; and the timer of a
\* superseded message never clears a later message: a message the timer
\* clears has been on the screen for the whole delay since it was set.
C25_ClearedByItsOwnTimer ==
    /\ \A msg \in SuccessMessages :
          (success = msg) ~> (success # msg \/ timer = Unmounted)
    /\ [][(success # <<>> /\ success' = <<>>) => shownFor = TimerDelay]_vars

\* the part of C25 that holds: a message is eventually cleared or replaced
\* unless the App is unmounted, and never stays longer than the delay after
\* it was set
C25_EventuallyCleared ==
    /\ \A msg \in SuccessMessages :
          (success = msg) ~> (success # msg \/ timer = Unmounted)
    /\ [](success # <<>> /\ timer # Unmounted => timer \in 0..(TimerDelay - shownFor))

----------------------------------------------------------------------------
(* The list of the App and its pages.  fetchSettings(page) sends a list    *)
(* request and goes on when the response arrives; the App takes no notice  *)
(* of the requests it has in flight, and responses arrive in any order.    *)
(* The writes are awaited here: the POST or DELETE of a handler is         *)
(* answered within the step, the list request that follows is left in      *)
(* flight.  A click comes at least a millisecond after the one before, so  *)
(* the records have distinct creation times.                               *)

\* at most this many records are created, and this many list requests are
\* in flight
MaxCreates == 6
MaxFetches == 2

\* the list requests [page, arrived] whose response has not been taken yet
InFlight == {i \in 1..Len(fetches) : ~fetches[i].arrived}

\* fetchSettings(page) up to its await: setLoading(true), the request is
\* on its way
fetchSettingsSent(page) ==
    /\ Cardinality(InFlight) < MaxFetches
    /\ fetches' = Append(SelectSeq(fetches, LAMBDA f : ~f.arrived), [page |-> page, arrived |-> FALSE])
    /\ loading' = TRUE

\* handleCreate() with the default text in the editor: the POST is answered
\* 201, then fetchSettings(pagination.page)
CreateThenFetch ==
    /\ Cardinality(issued) < MaxCreates
    /\ editingId = NoId
    /\ validateJson(jsonInput)
    /\ \E id \in {AllIds[Cardinality(issued) + 1]} :
          LET wire == WireOf(jsonInput)
              out == PostSettings(table, wire, expressJson(wire).body, id, Now)
          IN /\ table' = out.tbl
             /\ issued' = issued \cup {id}
             /\ success' = CreatedMessage(out.resp.rid)
    /\ clock' = clock + 1
    /\ error' = <<>>
    /\ jsonInput' = DefaultText
    /\ fetchSettingsSent(pagination.page)
    /\ UNCHANGED <<resp, hist, fields, nextId, isJsonValid, editorMode, calls, editingId,
                   settings, pagination, timer, shownFor, pending, sent>>

\* handleDelete(id) of a record of the list, the confirm() accepted: the
\* DELETE is answered 204, then fetchSettings(pagination.page)
DeleteThenFetch ==
    /\ ~loading /\ settings # <<>>   \* the list is on the screen with its buttons
    /\ \E i \in 1..Len(settings) :
          table' = DeleteSettings(table, settings[i].id).tbl
    /\ success' = <<"Deleted successfully!">>
    /\ fetchSettingsSent(pagination.page)
    /\ UNCHANGED <<clock, issued, resp, hist, builder, editingId, error, settings,
                   pagination, timer, shownFor, pending, sent>>

\* the Previous button: fetchSettings(pagination.page - 1)
PreviousPage ==
    /\ ~loading /\ settings # <<>>   \* the list is on the screen with its buttons
    /\ pagination.page > 1
    /\ fetchSettingsSent(pagination.page - 1)
    /\ UNCHANGED <<api, builder, editingId, error, success, settings, pagination,
                   timer, shownFor, pending, sent>>

\* the Next button: fetchSettings(pagination.page + 1)
NextPage ==
    /\ ~loading /\ settings # <<>>   \* the list is on the screen with its buttons
    /\ pagination.page < pagination.totalPages
    /\ fetchSettingsSent(pagination.page + 1)
    /\ UNCHANGED <<api, builder, editingId, error, success, settings, pagination,
                   timer, shownFor, pending, sent>>

\* one of the list requests in flight is answered by app.get('/settings')
\* and fetchSettings goes on: setSettings, setPagination, setLoading(false)
ListArrives ==
    /\ \E i \in InFlight, ord \in Orderings(table) :
          LET r == ListSettings(table, ord, Given(NumberToString(fetches[i].page)), Given(<<"5">>)) IN
          /\ settings' = r.rows
          /\ pagination' = [page |-> r.page, totalPages |-> r.totalPages]
          /\ fetches' = IF i = Len(fetches)
                        THEN [fetches EXCEPT ![i].arrived = TRUE]
                        ELSE SubSeq(fetches, 1, i - 1) \o SubSeq(fetches, i + 1, Len(fetches))
    /\ loading' = FALSE
    /\ UNCHANGED <<api, builder, editingId, error, success, timer, shownFor, pending, sent>>

\* the App is mounted and the effect of the mount has called fetchSettings()
InitPages ==
    /\ table = {}
    /\ clock = 0
    /\ issued = {}
    /\ resp = NoResp
    /\ hist = [id \in Ids |-> NoHist]
    /\ jsonInput = DefaultText
    /\ fields = parseInitialFields(DefaultText)
    /\ nextId = Len(fields)
    /\ isJsonValid = TRUE
    /\ editorMode = "visual"
    /\ calls = NoCalls
    /\ editingId = NoId
    /\ error = <<>>
    /\ success = <<>>
    /\ settings = <<>>
    /\ pagination = [page |-> 1, totalPages |-> 1]
    /\ loading = TRUE
    /\ fetches = <<[page |-> 1, arrived |-> FALSE]>>
    /\ timer = NoTimer
    /\ shownFor = 0
    /\ pending = <<>>
    /\ sent = NoRequest

NextPages == CreateThenFetch \/ DeleteThenFetch \/ PreviousPage \/ NextPage \/ ListArrives

SpecPages == InitPages /\ [][NextPages]_vars

----------------------------------------------------------------------------
(* Properties of the list of the App (SpecPages) *)

\* the rows app.get('/settings') answers for a page of the present store
PageOfStore(page) ==
    {ListSettings(table, ord, Given(NumberToString(page)), Given(<<"5">>)).rows : ord \in Orderings(table)}

\* C29: once no list request is in flight, the page number shown is at
\* least 1 and at most totalPages, and the list is shown empty only when
\* the store holds no records.
C29_PageWithinRange ==
    InFlight = {}
        => /\ 1 <= pagination.page
           /\ pagination.page <= pagination.totalPages
           /\ settings = <<>> => table = {}

\* C30: when all list requests have been answered, the records and the
\* pagination shown are those of the request issued last; and the loading
\* indicator is on as long as a list request is in flight.
C30_LastIssuedWins ==
    /\ InFlight = {}
          => /\ pagination.page = fetches[Len(fetches)].page
             /\ settings \in PageOfStore(fetches[Len(fetches)].page)
    /\ InFlight # {} => loading

====
